---- MODULE Spec2Model ----
(***************************************************************************)
(* Model of scripts/make_mosaic_data.py and scripts/utils.py:              *)
(*   - get_mosaic_time_dict_from_series_id  (the time-window resolver)     *)
(*   - make_mosaic_info, make_quad_info_df, main  (the assembler)          *)
(*   - generate_aoi_quads  (the paginated quad generator)                  *)
(* The remote catalog (series listing, mosaic info, quad listing) is the   *)
(* environment: every response is chosen nondeterministically.             *)
(***************************************************************************)
EXTENDS Integers, Sequences, FiniteSets, TLC

VARIABLES
    pc,                 \* position in main / make_mosaic_info / make_quad_info_df
    error,              \* the exception that ended the run, or NoError
    aoi_geom,           \* main: aoi_geom (the canonical AOI geometry)
    mosaic_series,      \* resolver: r.json()['mosaics'] (the listing as served)
    observed_start,     \* --observed-start
    observed_end,       \* --observed-end
    mosaic_time_dict,   \* OrderedDict {name: first_acquired}, as a sequence of pairs
    mosaic_info_records,\* make_mosaic_info: mosaic_info_records / mosaic_info_df rows
    info_log,           \* history: the `planet mosaics info` calls and whether a record came back
    mosaic_csv,         \* contents of mosaic_info.csv, or NotWritten
    quad_dataframes,    \* make_quad_info_df: quad_dataframes
    quad_csv,           \* contents of quad_info.csv, or NotWritten
    scan_log,           \* history: mosaic ids whose quad listing was requested, in order
    gen_pc,             \* position of the generate_aoi_quads generator
    mosaic_id,          \* generate_aoi_quads: mosaic_id
    quads_url,          \* generate_aoi_quads: quads_url
    item_i,             \* number of items of the current page the for loop has consumed
    yielded,            \* the lists the generator has yielded so far
    fetch_log           \* history: one entry per requests.get of the generator

vars == <<pc, error, aoi_geom, mosaic_series, observed_start, observed_end,
          mosaic_time_dict, mosaic_info_records, info_log, mosaic_csv,
          quad_dataframes, quad_csv, scan_log, gen_pc, mosaic_id, quads_url,
          item_i, yielded, fetch_log>>

resolver_vars == <<mosaic_series, observed_start, observed_end, mosaic_time_dict>>
main_vars == <<pc, error, mosaic_info_records, info_log, mosaic_csv,
               quad_dataframes, quad_csv>>
gen_vars == <<gen_pc, mosaic_id, quads_url, item_i, yielded, fetch_log, scan_log>>

----------------------------------------------------------------------------
(* Bounds of the model *)

\* longest series listing the catalog serves
MaxEntries == 3
\* most items on one quad page
MaxItems == 2
\* most page requests the model follows within one scan
MaxFetch == 3

\* mosaic names, acquisition timestamps (compared with Python's >= and <=)
Names == {"m1", "m2"}
Times == {0, 1, 2}

NoError == [type |-> "none", stage |-> "none", at |-> "none"]
\* an output file that does not exist yet
NotWritten == [written |-> FALSE, rows |-> <<>>]
\* a url is the mosaic and bbox of its query and the page it names;
\* NoNext stands for a missing, null or empty _next link
NoNext == [mosaic |-> "", bbox |-> <<>>, page |-> ""]

----------------------------------------------------------------------------
(* utils.get_mosaic_time_dict_from_series_id *)

\* one element of r.json()['mosaics']
SeriesEntries ==
    {e \in [name : Names, first_acquired : Times, last_acquired : Times] :
        e.first_acquired <= e.last_acquired}

RECURSIVE SeqsUpTo(_, _)
SeqsUpTo(S, n) ==
    IF n = 0 THEN {<<>>}
    ELSE LET shorter == SeqsUpTo(S, n - 1)
         IN  shorter \cup {Append(s, x) : s \in {t \in shorter : Len(t) = n - 1}, x \in S}

SeriesListings == SeqsUpTo(SeriesEntries, MaxEntries)

\* insert e into the sorted sequence s after every element whose key is <= e's:
\* sorted() is stable
RECURSIVE InsertByFirstAcquired(_, _)
InsertByFirstAcquired(s, e) ==
    IF s = <<>> THEN <<e>>
    ELSE IF Head(s).first_acquired <= e.first_acquired
         THEN <<Head(s)>> \o InsertByFirstAcquired(Tail(s), e)
         ELSE <<e>> \o s

\* a plausible slip: the listing is used in the order served
unsorted_mosaic_series(listing) == listing

\* sorted(mosaic_series['mosaics'], key=itemgetter('first_acquired'))
RECURSIVE sorted_mosaic_series(_)
sorted_mosaic_series(listing) ==
    IF listing = <<>> THEN <<>>
    ELSE InsertByFirstAcquired(
            sorted_mosaic_series(SubSeq(listing, 1, Len(listing) - 1)),
            listing[Len(listing)])

\* a plausible slip: the end of the window is exclusive
InWindowExclusiveEnd(item, start, end) ==
    (item.first_acquired >= start) /\ (item.last_acquired < end)

\* the condition of the if statement in the loop
InWindow(item, start, end) ==
    (item.first_acquired >= start) /\ (item.last_acquired <= end)

\* OrderedDict: d[key] = value. A key already present keeps its position.
DictSet(d, key, value) ==
    IF \E i \in 1..Len(d) : d[i].name = key
    THEN [i \in 1..Len(d) |->
            IF d[i].name = key THEN [name |-> key, first_acquired |-> value] ELSE d[i]]
    ELSE Append(d, [name |-> key, first_acquired |-> value])

RECURSIVE FillDict(_, _, _, _)
FillDict(d, items, start, end) ==
    IF items = <<>> THEN d
    ELSE LET mosaic_item == Head(items)
         IN  FillDict(
                IF InWindow(mosaic_item, start, end)
                THEN DictSet(d, mosaic_item.name, mosaic_item.first_acquired)
                ELSE d,
                Tail(items), start, end)

get_mosaic_time_dict_from_series_id(listing, start, end) ==
    FillDict(<<>>, sorted_mosaic_series(listing), start, end)

Keys(d) == [i \in 1..Len(d) |-> d[i].name]

----------------------------------------------------------------------------
(* Geometry: shapely boxes and the AOI *)

\* A box is <<minx, miny, maxx, maxy>>, as shapely.geometry.box(*item['bbox']).
\* An AOI geometry is a set of closed boxes: a rectangular Polygon has one
\* member, a GeometryCollection (geojson_to_shape) has several.
AOIs ==
    { {<<0, 0, 10, 10>>},
      {<<0, 0, 2, 2>>, <<8, 8, 10, 10>>} }

Min(S) == CHOOSE x \in S : \A y \in S : x <= y
Max(S) == CHOOSE x \in S : \A y \in S : x >= y

\* aoi_geom.bounds
bounds(geom) ==
    << Min({b[1] : b \in geom}), Min({b[2] : b \in geom}),
       Max({b[3] : b \in geom}), Max({b[4] : b \in geom}) >>

\* two closed boxes have a common point (touching counts)
BoxesIntersect(a, b) ==
    a[1] <= b[3] /\ b[1] <= a[3] /\ a[2] <= b[4] /\ b[2] <= a[4]

\* a plausible slip: only the AOI's bounding box is tested
intersects_bounds(geom, box_geom) == BoxesIntersect(bounds(geom), box_geom)

\* aoi_geom.intersects(box_geom)
intersects(geom, box_geom) == \E part \in geom : BoxesIntersect(part, box_geom)

----------------------------------------------------------------------------
(* The quad listing endpoint, as the generator sees it *)

MosaicIds == {"id1", "id2"}

\* one element of a page's 'items' (the _links and percent_covered fields are
\* copied into the record unchanged and carry no control flow: they ride on id)
Tiles ==
    { [id |-> "q1", bbox |-> <<4, 4, 6, 6>>],
      [id |-> "q2", bbox |-> <<10, 10, 15, 15>>] }

\* the first request: .../mosaics/{mosaic_id}/quads?api_key=..&bbox={aoi bounds}
InitialUrl(geom, id) == [mosaic |-> id, bbox |-> bounds(geom), page |-> "first"]

\* the urls a page's _links._next can hold
NextUrls(geom, id) ==
    {[mosaic |-> id, bbox |-> bounds(geom), page |-> p] : p \in {"second", "third"}}

\* the item lists of a page: a page lists a quad at most once
ItemLists ==
    {l \in SeqsUpTo(Tiles, MaxItems) :
        \A i, j \in 1..Len(l) : i # j => l[i] # l[j]}

\* Response bodies. json: result.json() succeeds; has_items: the document has
\* an 'items' key; next: _links._next, NoNext when _links or _next is missing,
\* null or empty.
PageBodies(geom, id) ==
    [json : {TRUE}, has_items : {TRUE},
     items : ItemLists, next : NextUrls(geom, id) \cup {NoNext}]

ErrorBodies ==
    [json : BOOLEAN, has_items : {FALSE}, items : {<<>>}, next : {NoNext}]

Statuses == {200, 500}

\* what requests.get can return for a quad page
Responses(geom, id) == [status : Statuses, body : PageBodies(geom, id) \cup ErrorBodies]

\* the record built for an intersecting item
q_data(item, id) == [id |-> item.id, bbox |-> item.bbox, mosaic_id |-> id]

\* flatten = lambda l: [item for sublist in l for item in sublist]
RECURSIVE flatten(_)
flatten(l) == IF l = <<>> THEN <<>> ELSE Head(l) \o flatten(Tail(l))

----------------------------------------------------------------------------
(* generate_aoi_quads: one step per request and per item *)

\* the page the loop is working on
mosaic_quad_data == fetch_log[Len(fetch_log)].body

\* requests.get(url); result.json(); then the for loop reads ['items'].
\* A body that is not JSON raises in json(), a document without 'items'
\* raises KeyError; the status code is never looked at.
Receive(url, r) ==
    /\ fetch_log' = Append(fetch_log,
            [url |-> url, status |-> r.status, body |-> r.body, examined |-> 0])
    /\ quads_url' = url
    /\ item_i' = 0
    /\ gen_pc' = IF r.body.json /\ r.body.has_items THEN "items" ELSE "raised"

\* lines 131-138: build the url with the AOI bounds and get the first page
Gen_FirstRequest(served) ==
    /\ gen_pc = "created"
    /\ scan_log' = Append(scan_log, mosaic_id)
    /\ \E r \in served : Receive(InitialUrl(aoi_geom, mosaic_id), r)
    /\ UNCHANGED <<mosaic_id, yielded, aoi_geom>>
    /\ UNCHANGED resolver_vars
    /\ UNCHANGED main_vars

\* lines 144-160: one iteration of the for loop
Gen_Item ==
    /\ gen_pc = "items"
    /\ item_i < Len(mosaic_quad_data.items)
    /\ LET item == mosaic_quad_data.items[item_i + 1]
           quads == IF intersects(aoi_geom, item.bbox)
                    THEN <<q_data(item, mosaic_id)>>
                    ELSE <<>>
       IN  yielded' = IF quads # <<>> THEN Append(yielded, quads) ELSE yielded
    /\ item_i' = item_i + 1
    /\ fetch_log' = [fetch_log EXCEPT ![Len(fetch_log)].examined = @ + 1]
    /\ UNCHANGED <<gen_pc, mosaic_id, quads_url, scan_log, aoi_geom>>
    /\ UNCHANGED resolver_vars
    /\ UNCHANGED main_vars

\* a plausible slip: the loop stops after the first page
Gen_BreakAlways ==
    /\ gen_pc = "items"
    /\ item_i = Len(mosaic_quad_data.items)
    /\ quads_url' = mosaic_quad_data.next
    /\ gen_pc' = "done"
    /\ UNCHANGED <<mosaic_id, item_i, yielded, fetch_log, scan_log, aoi_geom>>
    /\ UNCHANGED resolver_vars
    /\ UNCHANGED main_vars

\* lines 163-165: no _next link, the generator returns
Gen_Break ==
    /\ gen_pc = "items"
    /\ item_i = Len(mosaic_quad_data.items)
    /\ mosaic_quad_data.next = NoNext
    /\ quads_url' = mosaic_quad_data.next
    /\ gen_pc' = "done"
    /\ UNCHANGED <<mosaic_id, item_i, yielded, fetch_log, scan_log, aoi_geom>>
    /\ UNCHANGED resolver_vars
    /\ UNCHANGED main_vars

\* a plausible slip: quads_url is not advanced and the same page is requested again
StaleRequestUrl == quads_url

\* line 163: the url of the next request
NextRequestUrl == mosaic_quad_data.next

\* lines 163-168: follow the _next link
Gen_NextPage(served) ==
    /\ gen_pc = "items"
    /\ item_i = Len(mosaic_quad_data.items)
    /\ mosaic_quad_data.next # NoNext
    /\ Len(fetch_log) < MaxFetch
    /\ \E r \in served : Receive(NextRequestUrl, r)
    /\ UNCHANGED <<mosaic_id, yielded, scan_log, aoi_geom>>
    /\ UNCHANGED resolver_vars
    /\ UNCHANGED main_vars

\* one call of generate_aoi_quads(aoi_geom, mosaic_id), consumed to the end
ScanInit ==
    /\ pc = "scan"
    /\ error = NoError
    /\ aoi_geom \in AOIs
    /\ mosaic_series = <<>>
    /\ observed_start = 0
    /\ observed_end = 0
    /\ mosaic_time_dict = <<>>
    /\ mosaic_info_records = <<>>
    /\ info_log = <<>>
    /\ mosaic_csv = NotWritten
    /\ quad_dataframes = <<>>
    /\ quad_csv = NotWritten
    /\ scan_log = <<>>
    /\ gen_pc = "created"
    /\ mosaic_id = "id1"
    /\ quads_url = NoNext
    /\ item_i = 0
    /\ yielded = <<>>
    /\ fetch_log = <<>>

ScanNext ==
    \/ Gen_FirstRequest(Responses(aoi_geom, mosaic_id))
    \/ Gen_Item
    \/ Gen_Break
    \/ Gen_NextPage(Responses(aoi_geom, mosaic_id))

ScanSpec == ScanInit /\ [][ScanNext]_vars

----------------------------------------------------------------------------
(* get_mosaic_time_dict_from_series_id as a call on its own *)

ResolverInit ==
    /\ pc = "resolver"
    /\ error = NoError
    /\ aoi_geom = {}
    /\ mosaic_series \in SeriesListings
    /\ observed_start \in Times
    /\ observed_end \in Times
    /\ mosaic_time_dict = <<>>
    /\ mosaic_info_records = <<>>
    /\ info_log = <<>>
    /\ mosaic_csv = NotWritten
    /\ quad_dataframes = <<>>
    /\ quad_csv = NotWritten
    /\ scan_log = <<>>
    /\ gen_pc = "none"
    /\ mosaic_id = ""
    /\ quads_url = NoNext
    /\ item_i = 0
    /\ yielded = <<>>
    /\ fetch_log = <<>>

\* lines 22-30 on a listing the series endpoint served with success
Resolver_Call ==
    /\ pc = "resolver"
    /\ mosaic_time_dict' =
            get_mosaic_time_dict_from_series_id(mosaic_series, observed_start, observed_end)
    /\ pc' = "returned"
    /\ UNCHANGED <<error, aoi_geom, mosaic_series, observed_start, observed_end,
                   mosaic_info_records, info_log, mosaic_csv, quad_dataframes, quad_csv>>
    /\ UNCHANGED gen_vars

ResolverNext == Resolver_Call

ResolverSpec == ResolverInit /\ [][ResolverNext]_vars

----------------------------------------------------------------------------
(* main, make_mosaic_info, make_quad_info_df *)

\* what the series endpoint can answer
SeriesResponses == [status : {200, 404}, mosaics : SeriesListings]

\* stdout of `planet mosaics info <name>`: not JSON, or a document whose
\* 'mosaics' list is empty or holds the mosaic's record
InfoResponses ==
    {[json |-> FALSE, mosaics |-> <<>>], [json |-> TRUE, mosaics |-> <<>>]}
    \cup {[json |-> TRUE, mosaics |-> <<[id |-> i]>>] : i \in MosaicIds}

\* the quad pages served while main runs: answered with success, at most one
\* item a page, no link to a page requested before
MainResponses(geom, id) ==
    {r \in Responses(geom, id) :
        /\ r.status = 200
        /\ Len(r.body.items) <= 1
        /\ \A i \in 1..Len(fetch_log) : r.body.next # fetch_log[i].body.next}

\* an uncaught exception ends the run; stage and at tell where it was raised
Raise(type, stage, at) ==
    /\ pc' = "failed"
    /\ error' = [type |-> type, stage |-> stage, at |-> at]

\* lines 62-69: the arguments; line 71 enters make_mosaic_info
Init ==
    /\ pc = "make_mosaic_info"
    /\ error = NoError
    /\ aoi_geom \in AOIs
    /\ mosaic_series = <<>>
    /\ observed_start \in Times
    /\ observed_end \in Times
    /\ mosaic_time_dict = <<>>
    /\ mosaic_info_records = <<>>
    /\ info_log = <<>>
    /\ mosaic_csv = NotWritten
    /\ quad_dataframes = <<>>
    /\ quad_csv = NotWritten
    /\ scan_log = <<>>
    /\ gen_pc = "none"
    /\ mosaic_id = ""
    /\ quads_url = NoNext
    /\ item_i = 0
    /\ yielded = <<>>
    /\ fetch_log = <<>>

\* line 97: the call of the resolver; r.raise_for_status() ends the run on a
\* series the catalog does not know. The listing is a local of the call.
MosaicInfo_Resolve(served) ==
    /\ pc = "make_mosaic_info"
    /\ \E r \in served :
        IF r.status # 200
        THEN /\ Raise("HTTPError", "series", "series")
             /\ UNCHANGED mosaic_time_dict
        ELSE /\ mosaic_time_dict' =
                    get_mosaic_time_dict_from_series_id(r.mosaics, observed_start, observed_end)
             /\ pc' = "info_loop"
             /\ UNCHANGED error
    /\ UNCHANGED <<aoi_geom, mosaic_series, observed_start, observed_end,
                   mosaic_info_records, info_log, mosaic_csv, quad_dataframes, quad_csv>>
    /\ UNCHANGED gen_vars

\* a plausible slip: a mosaic whose info cannot be read is skipped
MosaicInfo_FetchSkipping(served) ==
    /\ pc = "info_loop"
    /\ Len(info_log) < Len(mosaic_time_dict)
    /\ LET mosaic_name == mosaic_time_dict[Len(info_log) + 1].name
       IN  /\ \E r \in served :
                /\ info_log' = Append(info_log,
                        [name |-> mosaic_name, found |-> r.json /\ r.mosaics # <<>>])
                /\ mosaic_info_records' =
                    IF r.mosaics = <<>>
                    THEN mosaic_info_records
                    ELSE Append(mosaic_info_records,
                                [name |-> mosaic_name, id |-> r.mosaics[1].id])
    /\ UNCHANGED <<pc, error>>
    /\ UNCHANGED <<aoi_geom, mosaic_csv, quad_dataframes, quad_csv>>
    /\ UNCHANGED resolver_vars
    /\ UNCHANGED gen_vars

\* lines 101-113: one iteration of the loop over mosaic_time_dict.keys().
\* json.loads raises on output that is not JSON, ['mosaics'][0] raises
\* IndexError when the catalog has no record of the name.
MosaicInfo_Fetch(served) ==
    /\ pc = "info_loop"
    /\ Len(info_log) < Len(mosaic_time_dict)
    /\ LET mosaic_name == mosaic_time_dict[Len(info_log) + 1].name
       IN  /\ \E r \in served :
                /\ info_log' = Append(info_log,
                        [name |-> mosaic_name, found |-> r.json /\ r.mosaics # <<>>])
                /\ IF ~r.json
                   THEN /\ Raise("ValueError", "mosaic_info", mosaic_name)
                        /\ UNCHANGED mosaic_info_records
                   ELSE IF r.mosaics = <<>>
                   THEN /\ Raise("IndexError", "mosaic_info", mosaic_name)
                        /\ UNCHANGED mosaic_info_records
                   ELSE /\ mosaic_info_records' =
                                Append(mosaic_info_records,
                                       [name |-> mosaic_name, id |-> r.mosaics[1].id])
                        /\ UNCHANGED <<pc, error>>
    /\ UNCHANGED <<aoi_geom, mosaic_csv, quad_dataframes, quad_csv>>
    /\ UNCHANGED resolver_vars
    /\ UNCHANGED gen_vars

\* lines 116-123: the nested attributes are unpacked. A frame built from no
\* record has no '_links' column and line 117 raises KeyError.
MosaicInfo_Unpack ==
    /\ pc = "info_loop"
    /\ Len(info_log) = Len(mosaic_time_dict)
    /\ IF mosaic_info_records = <<>>
       THEN Raise("KeyError", "unpack", "_links")
       ELSE /\ pc' = "mosaic_to_csv"
            /\ UNCHANGED error
    /\ UNCHANGED <<aoi_geom, mosaic_info_records, info_log, mosaic_csv,
                   quad_dataframes, quad_csv>>
    /\ UNCHANGED resolver_vars
    /\ UNCHANGED gen_vars

\* a plausible slip: the mosaic table is only written at the end of main
Main_SkipMosaicCsv ==
    /\ pc = "mosaic_to_csv"
    /\ pc' = "quad_loop"
    /\ UNCHANGED <<error, aoi_geom, mosaic_info_records, info_log, mosaic_csv,
                   quad_dataframes, quad_csv>>
    /\ UNCHANGED resolver_vars
    /\ UNCHANGED gen_vars

\* lines 72-75: mosaic_info.csv is written, make_quad_info_df is entered
Main_WriteMosaicCsv ==
    /\ pc = "mosaic_to_csv"
    /\ mosaic_csv' = [written |-> TRUE, rows |-> mosaic_info_records]
    /\ pc' = "quad_loop"
    /\ UNCHANGED <<error, aoi_geom, mosaic_info_records, info_log,
                   quad_dataframes, quad_csv>>
    /\ UNCHANGED resolver_vars
    /\ UNCHANGED gen_vars

\* a plausible slip: the rows are visited from the last to the first
Quad_StartRowReversed ==
    /\ pc = "quad_loop"
    /\ gen_pc = "none"
    /\ Len(quad_dataframes) < Len(mosaic_info_records)
    /\ mosaic_id' =
            mosaic_info_records[Len(mosaic_info_records) - Len(quad_dataframes)].id
    /\ gen_pc' = "created"
    /\ quads_url' = NoNext
    /\ item_i' = 0
    /\ yielded' = <<>>
    /\ fetch_log' = <<>>
    /\ UNCHANGED <<scan_log, aoi_geom>>
    /\ UNCHANGED resolver_vars
    /\ UNCHANGED main_vars

\* lines 82-83: the next row of mosaic_info_df; the generator is created
Quad_StartRow ==
    /\ pc = "quad_loop"
    /\ gen_pc = "none"
    /\ Len(quad_dataframes) < Len(mosaic_info_records)
    /\ mosaic_id' = mosaic_info_records[Len(quad_dataframes) + 1].id
    /\ gen_pc' = "created"
    /\ quads_url' = NoNext
    /\ item_i' = 0
    /\ yielded' = <<>>
    /\ fetch_log' = <<>>
    /\ UNCHANGED <<scan_log, aoi_geom>>
    /\ UNCHANGED resolver_vars
    /\ UNCHANGED main_vars

\* lines 84-86: the generator is exhausted, its lists are flattened and kept;
\* the exhausted generator and its locals are dropped
Quad_CollectRow ==
    /\ pc = "quad_loop"
    /\ gen_pc = "done"
    /\ quad_dataframes' = Append(quad_dataframes, flatten(yielded))
    /\ gen_pc' = "none"
    /\ quads_url' = NoNext
    /\ item_i' = 0
    /\ yielded' = <<>>
    /\ fetch_log' = <<>>
    /\ UNCHANGED <<pc, error, mosaic_info_records, info_log, mosaic_csv, quad_csv>>
    /\ UNCHANGED <<mosaic_id, scan_log, aoi_geom>>
    /\ UNCHANGED resolver_vars

\* line 84: an exception of the generator leaves the comprehension,
\* make_quad_info_df and main
Quad_Raise ==
    /\ pc = "quad_loop"
    /\ gen_pc = "raised"
    /\ Raise(IF mosaic_quad_data.json THEN "KeyError" ELSE "ValueError",
             "quad_scan", mosaic_id)
    /\ UNCHANGED <<mosaic_info_records, info_log, mosaic_csv, quad_dataframes, quad_csv>>
    /\ UNCHANGED <<aoi_geom>>
    /\ UNCHANGED resolver_vars
    /\ UNCHANGED gen_vars

\* lines 88-89 and 76-77: the frames are concatenated and quad_info.csv is written
Main_WriteQuadCsv ==
    /\ pc = "quad_loop"
    /\ gen_pc = "none"
    /\ Len(quad_dataframes) = Len(mosaic_info_records)
    /\ IF quad_dataframes = <<>>
       THEN /\ Raise("ValueError", "concat", "concat")
            /\ UNCHANGED quad_csv
       ELSE /\ quad_csv' = [written |-> TRUE, rows |-> flatten(quad_dataframes)]
            /\ pc' = "done"
            /\ UNCHANGED error
    /\ UNCHANGED <<aoi_geom, mosaic_info_records, info_log, mosaic_csv, quad_dataframes>>
    /\ UNCHANGED resolver_vars
    /\ UNCHANGED gen_vars

Next ==
    \/ MosaicInfo_Resolve(SeriesResponses)
    \/ MosaicInfo_Fetch(InfoResponses)
    \/ MosaicInfo_Unpack
    \/ Main_WriteMosaicCsv
    \/ Quad_StartRow
    \/ Gen_FirstRequest(MainResponses(aoi_geom, mosaic_id))
    \/ Gen_Item
    \/ Gen_Break
    \/ Gen_NextPage(MainResponses(aoi_geom, mosaic_id))
    \/ Quad_CollectRow
    \/ Quad_Raise
    \/ Main_WriteQuadCsv

Spec == Init /\ [][Next]_vars

FairScanSpec == ScanSpec /\ WF_vars(ScanNext)

----------------------------------------------------------------------------
(* Properties of generate_aoi_quads, checked under ScanSpec / FairScanSpec *)

\* the coordinates at which boxes of the model begin and end
Coords == {0, 2, 4, 6, 8, 10, 15}

\* the box and the AOI have a point in common
HasCommonPoint(geom, bbox) ==
    \E x \in Coords, y \in Coords :
        /\ bbox[1] <= x /\ x <= bbox[3] /\ bbox[2] <= y /\ y <= bbox[4]
        /\ \E part \in geom :
            part[1] <= x /\ x <= part[3] /\ part[2] <= y /\ y <= part[4]

\* the items the for loop has gone through, page after page, in listing order
RECURSIVE ExaminedOf(_)
ExaminedOf(log) ==
    IF log = <<>> THEN <<>>
    ELSE SubSeq(Head(log).body.items, 1, Head(log).examined) \o ExaminedOf(Tail(log))

ExaminedItems == ExaminedOf(fetch_log)

AllPagesExamined ==
    \A i \in 1..Len(fetch_log) :
        fetch_log[i].examined = Len(fetch_log[i].body.items)

\* C1: the flattened output of the generator is, in page order and listing
\* order, one record for each examined tile whose box has a point in common
\* with the AOI and none for a tile whose box is disjoint from it; when the
\* scan has completed every tile of every fetched page has been examined.
C1_RecordsAreTheIntersectingTiles ==
    LET Touches(item) == HasCommonPoint(aoi_geom, item.bbox)
        hits == SelectSeq(ExaminedItems, Touches)
    IN  /\ flatten(yielded) =
                [k \in 1..Len(hits) |->
                    [id |-> hits[k].id, bbox |-> hits[k].bbox, mosaic_id |-> mosaic_id]]
        /\ \A k \in 1..Len(yielded) : Len(yielded[k]) = 1
        /\ gen_pc = "done" => AllPagesExamined

\* a completed scan of three pages that kept one tile of each page and
\* dropped a fourth tile
C1_Witness ==
    /\ gen_pc = "done"
    /\ Len(fetch_log) = 3
    /\ Len(fetch_log[1].body.items) = 2
    /\ Len(fetch_log[2].body.items) = 1
    /\ Len(fetch_log[3].body.items) = 1
    /\ Len(flatten(yielded)) = 3

\* C2: every page after the first was requested at the url the page before it
\* gave as _next, and only once all items of that page were processed; a scan
\* completes only on a fully processed page without a _next link, so that the
\* whole chain from the first (bbox) request has been fetched and examined.
C2_PaginationExhaustive ==
    /\ fetch_log # <<>> => fetch_log[1].url = InitialUrl(aoi_geom, mosaic_id)
    /\ \A i \in 1..(Len(fetch_log) - 1) :
        /\ fetch_log[i].examined = Len(fetch_log[i].body.items)
        /\ fetch_log[i].body.next # NoNext
        /\ fetch_log[i + 1].url = fetch_log[i].body.next
    /\ gen_pc = "done" =>
        /\ fetch_log # <<>>
        /\ fetch_log[Len(fetch_log)].body.next = NoNext
        /\ AllPagesExamined

\* a completed scan that followed two _next links, every page with items
C2_Witness ==
    /\ gen_pc = "done"
    /\ Len(fetch_log) = 3
    /\ \A i \in 1..3 : fetch_log[i].body.items # <<>>

NoPageFetchedTwice ==
    \A i, j \in 1..Len(fetch_log) : i # j => fetch_log[i].url # fetch_log[j].url

\* no _next link served so far points at a page already requested
LinksAcyclic ==
    \A i \in 1..Len(fetch_log) :
        \A j \in 1..i : fetch_log[i].body.next # fetch_log[j].url

\* C3 as stated: whatever pages the catalog serves, no page is fetched more
\* than once within a scan.
C3_NoPageRepeatedEver == NoPageFetchedTwice

\* C3, amended: as long as no _next link points back at a page already
\* fetched, no page is fetched twice, the scan makes no more requests than
\* there are pages (the first and those a link can name), it completes only on
\* a page without a _next link, and it
\* does come to an end (it returns, or a response that cannot be read raises).
C3_AcyclicScanIsFinite ==
    /\ [](LinksAcyclic =>
            /\ NoPageFetchedTwice
            /\ Len(fetch_log) <= Cardinality(NextUrls(aoi_geom, mosaic_id)) + 1
            /\ gen_pc = "done" => fetch_log[Len(fetch_log)].body.next = NoNext)
    /\ <>(gen_pc \in {"done", "raised"} \/ ~LinksAcyclic)

\* an acyclic chain of three pages, scanned to the end
C3_Witness ==
    /\ gen_pc = "done"
    /\ LinksAcyclic
    /\ Len(fetch_log) = 3

\* C5 as stated: a response with a non-success status ends the scan at once:
\* it is the last request, the generator has raised, and none of its items
\* was processed.
C5_NonSuccessAbortsScan ==
    \A i \in 1..Len(fetch_log) :
        fetch_log[i].status # 200 =>
            /\ i = Len(fetch_log)
            /\ gen_pc = "raised"
            /\ fetch_log[i].examined = 0

----------------------------------------------------------------------------
(* Properties of get_mosaic_time_dict_from_series_id, checked under ResolverSpec *)

Qualifies(e) ==
    e.first_acquired >= observed_start /\ e.last_acquired <= observed_end

Ascending ==
    \A k \in 1..(Len(mosaic_time_dict) - 1) :
        mosaic_time_dict[k].first_acquired <= mosaic_time_dict[k + 1].first_acquired

\* C9 as stated: for every listing, shared names included, the values of the
\* result are in ascending order.
C9_ResultAscendingAlways == pc = "returned" => Ascending

\* no two entries inside the window share a name
QualifyingNamesDistinct ==
    \A i, j \in 1..Len(mosaic_series) :
        (i # j /\ Qualifies(mosaic_series[i]) /\ Qualifies(mosaic_series[j]))
            => mosaic_series[i].name # mosaic_series[j].name

\* C9, amended: for every listing, in any input order, in which no two entries
\* inside the window share a name, the values of the result are in ascending
\* order.
C9_ResultAscendingForDistinctNames ==
    (pc = "returned" /\ QualifyingNamesDistinct) => Ascending

\* two mosaics served latest first come back earliest first
C9_Witness ==
    /\ pc = "returned"
    /\ QualifyingNamesDistinct
    /\ Len(mosaic_time_dict) = 2
    /\ mosaic_time_dict[1].first_acquired < mosaic_time_dict[2].first_acquired
    /\ \E i, j \in 1..Len(mosaic_series) :
        /\ i < j
        /\ Qualifies(mosaic_series[i]) /\ Qualifies(mosaic_series[j])
        /\ mosaic_series[i].first_acquired > mosaic_series[j].first_acquired

----------------------------------------------------------------------------
(* Properties of main, checked under Spec *)

\* C6: the info calls follow the order of the resolver's result; the k-th quad
\* scan is for the mosaic of the k-th info record, which is the k-th name of
\* the resolver's result; no quad request is made before every info call has
\* succeeded; every quad row carries the id of the mosaic whose scan made it.
C6_ResolverOrderAndInfoFirst ==
    /\ \A k \in 1..Len(info_log) : info_log[k].name = mosaic_time_dict[k].name
    /\ \A k \in 1..Len(mosaic_info_records) :
        mosaic_info_records[k].name = mosaic_time_dict[k].name
    /\ \A k \in 1..Len(scan_log) :
        /\ k <= Len(mosaic_info_records)
        /\ scan_log[k] = mosaic_info_records[k].id
        /\ info_log[k].found
    /\ scan_log # <<>> =>
        /\ Len(mosaic_info_records) = Len(mosaic_time_dict)
        /\ \A k \in 1..Len(info_log) : info_log[k].found
    /\ \A k \in 1..Len(quad_dataframes) :
        \A n \in 1..Len(quad_dataframes[k]) :
            quad_dataframes[k][n].mosaic_id = mosaic_info_records[k].id
    /\ \A k \in 1..Len(yielded) :
        /\ scan_log # <<>>
        /\ yielded[k][1].mosaic_id = scan_log[Len(scan_log)]

\* a finished run over two mosaics with different ids, each with a quad row
C6_Witness ==
    /\ pc = "done"
    /\ Len(scan_log) = 2
    /\ scan_log[1] # scan_log[2]
    /\ quad_dataframes[1] # <<>>
    /\ quad_dataframes[2] # <<>>

\* C7: an info call that brings back no record is the last one: the run has
\* failed in make_mosaic_info at that mosaic, no quad listing was requested
\* and no output file exists.
C7_UnknownMosaicFailsRun ==
    \A k \in 1..Len(info_log) :
        ~info_log[k].found =>
            /\ k = Len(info_log)
            /\ pc = "failed"
            /\ error.stage = "mosaic_info"
            /\ error.at = info_log[k].name
            /\ scan_log = <<>>
            /\ fetch_log = <<>>
            /\ ~quad_csv.written

\* the second of two mosaics is unknown to the catalog
C7_Witness ==
    /\ pc = "failed"
    /\ error.type = "IndexError"
    /\ Len(info_log) = 2
    /\ Len(mosaic_info_records) = 1

\* C8 as stated: once the resolver has returned an empty result the run does
\* not fail, and it ends with both tables written and empty.
C8_EmptyWindowHandled ==
    (pc # "make_mosaic_info" /\ error.stage # "series" /\ mosaic_time_dict = <<>>) =>
        /\ pc # "failed"
        /\ pc = "done" => (mosaic_csv.rows = <<>> /\ quad_csv.rows = <<>>)

\* C10: the mosaic table is written after every info call has succeeded and
\* before the first quad request; the quad table is written after the scans of
\* all mosaics have completed, hence after the mosaic table; a scan that fails
\* leaves the mosaic table written and the quad table unwritten.
C10_OutputFilesInOrder ==
    /\ mosaic_csv.written =>
        /\ Len(mosaic_info_records) = Len(mosaic_time_dict)
        /\ \A k \in 1..Len(info_log) : info_log[k].found
        /\ mosaic_csv.rows = mosaic_info_records
    /\ (scan_log # <<>> \/ gen_pc # "none") => mosaic_csv.written
    /\ quad_csv.written =>
        /\ mosaic_csv.written
        /\ pc = "done"
        /\ gen_pc = "none"
        /\ Len(scan_log) = Len(mosaic_info_records)
        /\ Len(quad_dataframes) = Len(mosaic_info_records)
        /\ quad_csv.rows = flatten(quad_dataframes)
    /\ (pc = "failed" /\ error.stage = "quad_scan") =>
        /\ mosaic_csv.written
        /\ ~quad_csv.written

\* the scan of the second mosaic fails after the first one gave a row
C10_Witness ==
    /\ pc = "failed"
    /\ error.stage = "quad_scan"
    /\ Len(quad_dataframes) = 1
    /\ quad_dataframes[1] # <<>>
    /\ mosaic_csv.written
    /\ ~quad_csv.written

====
